---- MODULE Spec2Model ----
(***************************************************************************)
(* Model of create_distillation_circuit (distillation.py): the builder of  *)
(* the Iterative DEJMPS entanglement-distillation circuit, the synthesis   *)
(* of its flag logic and the line-oriented patch that splices the flag     *)
(* logic into the serialized OpenQASM 3 program.                           *)
(*                                                                         *)
(* Texts are sequences of tokens; the token "\n" separates lines and the   *)
(* tokens of WS are runs of whitespace.  A line is the sequence of tokens  *)
(* between two separators.                                                 *)
(***************************************************************************)
EXTENDS Integers, Sequences, FiniteSets, TLC

\* ------------------------------------------------------------------------
\* Program constants and bounds of the model
\* ------------------------------------------------------------------------
MinPairs == 2
MaxPairs == 8

\* how far beyond [MinPairs, MaxPairs] the inputs of the model reach
InputSlack == 2
\* texts and fragments the patcher is run on in isolation
MaxTextLen == 5
MaxFragLen == 2

\* denominators of the numeric inputs (1: an int, 2 and 4: floats)
Denominators == {1, 2, 4}

\* the numbers num_bell_pairs is drawn from, as reduced fractions num/den
Inputs ==
    { [num |-> n, den |-> d] :
        n \in ((MinPairs - InputSlack - 1) * 4) .. ((MaxPairs + InputSlack) * 4),
        d \in Denominators } \cap
    { x \in [num : Int, den : Denominators] :
        /\ x.num >= (MinPairs - InputSlack - 1) * x.den
        /\ x.num <= (MaxPairs + InputSlack) * x.den
        /\ (x.den > 1 => x.num % 2 = 1) }

\* ------------------------------------------------------------------------
\* Numbers
\* ------------------------------------------------------------------------
\* isinstance(x, int): the fraction is reduced, so an int has denominator 1
IsIntegral(x) == x.den = 1

\* the int value of an integral number
IntOf(x) == x.num \div x.den

InRangeOffByOne(x) == MinPairs * x.den <= x.num /\ x.num <= (MaxPairs + 1) * x.den

\* 2 <= num_bell_pairs <= 8
InRange(x) == MinPairs * x.den <= x.num /\ x.num <= MaxPairs * x.den

\* size == int(size), the test a register constructor applies to 2*N and 2*N-1
TwiceIsIntegral(x) == (2 * x.num) % x.den = 0

\* 2*N
QuantumSize(N) == 2 * N

ClassicalSizeLong(N) == 2 * N

\* 2*N-1
ClassicalSize(N) == 2 * N - 1

\* a register of n bits: the sequence of its bit indices 0..n-1
Register(n) == [b \in 1 .. n |-> b - 1]

\* reg[idx] for a 0-based index
At(reg, idx) == reg[idx + 1]

\* ------------------------------------------------------------------------
\* Pairing scheme and the operations of one step
\* ------------------------------------------------------------------------
AliceTarget(N) == N - 1
BobTarget(N) == N
FlagBit(N) == 2 * N - 2

AliceAncilla(N, kk) == kk

BobAncillaInward(N, kk) == N + kk

\* 2*N - 1 - k
BobAncilla(N, kk) == 2 * N - 1 - kk

AliceMeasShifted(kk) == 2 * kk + 2

\* 2*k
AliceMeas(kk) == 2 * kk

\* 2*k + 1
BobMeas(kk) == 2 * kk + 1

\* theta is the rotation angle in units of pi/2
Rx(theta, q) == [gate |-> "rx", theta |-> theta, qargs |-> <<q>>, cargs |-> <<>>]
Cx(ctl, tgt) == [gate |-> "cx", theta |-> 0, qargs |-> <<ctl, tgt>>, cargs |-> <<>>]
Measure(q, b) == [gate |-> "measure", theta |-> 0, qargs |-> <<q>>, cargs |-> <<b>>]

OpsPerStep == 8

StepOpsMeasureFirst(q, cl, at, bt, kk) ==
    LET aa == AliceAncilla(Len(q) \div 2, kk)
        ba == BobAncilla(Len(q) \div 2, kk)
    IN  << Measure(At(q, aa), At(cl, AliceMeas(kk))),
           Measure(At(q, ba), At(cl, BobMeas(kk))),
           Rx(1, At(q, at)),
           Rx(1, At(q, aa)),
           Rx(-1, At(q, bt)),
           Rx(-1, At(q, ba)),
           Cx(At(q, aa), At(q, at)),
           Cx(At(q, ba), At(q, bt)) >>

\* the body of the loop over the ancilla pairs, for pair kk
StepOps(q, cl, at, bt, kk) ==
    LET aa == AliceAncilla(Len(q) \div 2, kk)
        ba == BobAncilla(Len(q) \div 2, kk)
    IN  << Rx(1, At(q, at)),
           Rx(1, At(q, aa)),
           Rx(-1, At(q, bt)),
           Rx(-1, At(q, ba)),
           Cx(At(q, aa), At(q, at)),
           Cx(At(q, ba), At(q, bt)),
           Measure(At(q, aa), At(cl, AliceMeas(kk))),
           Measure(At(q, ba), At(cl, BobMeas(kk))) >>

\* ------------------------------------------------------------------------
\* Tokens, lines and texts
\* ------------------------------------------------------------------------
NL == "\n"

\* tokens made of whitespace only
WS == {" ", "    ", "        "}

RECURSIVE LStrip(_)
LStrip(line) ==
    IF line = <<>> THEN <<>>
    ELSE IF Head(line) \in WS THEN LStrip(Tail(line)) ELSE line

RECURSIVE RStrip(_)
RStrip(line) ==
    IF line = <<>> THEN <<>>
    ELSE IF line[Len(line)] \in WS THEN RStrip(SubSeq(line, 1, Len(line) - 1)) ELSE line

\* str.strip()
Strip(line) == RStrip(LStrip(line))

\* the positions of the line separators of a text
Separators(str) == { p \in 1 .. Len(str) : str[p] = NL }

\* str.split('\n'): always at least one line.  A text splits at any of its
\* separators into two texts whose lines, in order, are its lines; the
\* middle separator keeps the recursion shallow.
RECURSIVE Split(_)
Split(str) ==
    LET seps == Separators(str)
    IN  IF seps = {} THEN << str >>
        ELSE LET mid == CHOOSE p \in seps :
                            Cardinality({ q \in seps : q < p }) = Cardinality(seps) \div 2
             IN  Split(SubSeq(str, 1, mid - 1)) \o Split(SubSeq(str, mid + 1, Len(str)))

\* '\n'.join(lines), joined half by half
RECURSIVE Join(_)
Join(lines) ==
    IF lines = <<>> THEN <<>>
    ELSE IF Len(lines) = 1 THEN lines[1]
    ELSE LET half == Len(lines) \div 2
         IN  Join(SubSeq(lines, 1, half)) \o <<NL>> \o Join(SubSeq(lines, half + 1, Len(lines)))

\* f"c[{b}]" and the serializer's q[...]
CRef(b) == "c[" \o ToString(b) \o "]"
QRef(q) == "q[" \o ToString(q) \o "]"

\* ------------------------------------------------------------------------
\* The serializer, qasm3.dumps: one statement per operation, the register
\* declarations, and a layout that is the serializer's choice
\* ------------------------------------------------------------------------
FlatLayouts == { [scope |-> FALSE, close |-> "none", eol |-> e] : e \in BOOLEAN }
ScopedLayouts ==
    { [scope |-> TRUE, close |-> cs, eol |-> e] :
        cs \in {"own", "padded", "inline"}, e \in BOOLEAN }
Layouts == FlatLayouts \cup ScopedLayouts

Stmt(op) ==
    IF op.gate = "rx"
    THEN << (IF op.theta = 1 THEN "rx(pi/2) " ELSE "rx(-pi/2) "), QRef(op.qargs[1]), ";" >>
    ELSE IF op.gate = "cx"
    THEN << "cx ", QRef(op.qargs[1]), ", ", QRef(op.qargs[2]), ";" >>
    ELSE << CRef(op.cargs[1]), " = ", "measure ", QRef(op.qargs[1]), ";" >>

Dumps(q, cl, data, layout) ==
    LET header == << <<"OPENQASM 3.0;">>, <<"include ", "stdgates.inc", ";">> >>
        decls  == << <<"bit[", ToString(Len(cl)), "] c;">>,
                     <<"qubit[", ToString(Len(q)), "] q;">> >>
        indent == IF layout.scope THEN <<"    ">> ELSE <<>>
        stmts  == [n \in 1 .. Len(data) |-> indent \o Stmt(data[n])]
        open   == IF layout.scope THEN << <<"{">> >> ELSE <<>>
        body   == IF layout.close = "own" THEN stmts \o << <<"}">> >>
                  ELSE IF layout.close = "padded" THEN stmts \o << <<"    ", "}", " ">> >>
                  ELSE IF layout.close = "inline" /\ stmts # <<>>
                  THEN [stmts EXCEPT ![Len(stmts)] = @ \o <<" ", "}">>]
                  ELSE IF layout.close = "inline" THEN << <<"}">> >>
                  ELSE stmts
        tail   == IF layout.eol THEN << <<>> >> ELSE <<>>
    IN  Join(header \o decls \o open \o body \o tail)

\* ------------------------------------------------------------------------
\* The flag logic synthesizer
\* ------------------------------------------------------------------------
FlagHeader ==
    << "    ", "//", " Flag logic: set flag = 1 if any measurements don't match" >>

IfLine(a, av, b, bv) ==
    << "    ", "if (", CRef(a), " == ", av, " && ", CRef(b), " == ", bv, ") {" >>

SetLine(f) == << "        ", CRef(f), " = ", "true", ";" >>

CloseLine == << "    ", "}" >>

FlagStepLinesOneSided(kk, f) ==
    << << "    ", "//", " Step ", ToString(kk), ": Check if ",
          CRef(AliceMeas(kk)), " != ", CRef(BobMeas(kk)) >>,
       IfLine(AliceMeas(kk), "true", BobMeas(kk), "false"),
       SetLine(f),
       CloseLine,
       IfLine(AliceMeas(kk), "true", BobMeas(kk), "false"),
       SetLine(f),
       CloseLine >>

FlagStepLinesStale(kk, f) ==
    << << "    ", "//", " Step ", ToString(kk), ": Check if ",
          CRef(AliceMeas(kk)), " != ", CRef(BobMeas(kk)) >>,
       IfLine(AliceMeas(kk), "true", BobMeas(kk), "false"),
       SetLine(f),
       CloseLine,
       IfLine(AliceMeas(kk), "false", AliceMeas(kk), "true"),
       SetLine(f),
       CloseLine >>

\* the lines appended for step kk, with flag bit f
FlagStepLines(kk, f) ==
    << << "    ", "//", " Step ", ToString(kk), ": Check if ",
          CRef(AliceMeas(kk)), " != ", CRef(BobMeas(kk)) >>,
       IfLine(AliceMeas(kk), "true", BobMeas(kk), "false"),
       SetLine(f),
       CloseLine,
       IfLine(AliceMeas(kk), "false", BobMeas(kk), "true"),
       SetLine(f),
       CloseLine >>

\* ------------------------------------------------------------------------
\* The patcher's test of a line
\* ------------------------------------------------------------------------
IsClosingBraceAnyLine(lines, idx) == Strip(lines[idx + 1]) = <<"}">>

\* stripped == '}' and i > 0
IsClosingBrace(lines, idx) == Strip(lines[idx + 1]) = <<"}">> /\ idx > 0

\* qasm_lines[:insert_pos] + flag_logic_lines + qasm_lines[insert_pos:]
Splice(lines, pos, frag) ==
    SubSeq(lines, 1, pos) \o frag \o SubSeq(lines, pos + 1, Len(lines))

\* ------------------------------------------------------------------------
\* State
\* ------------------------------------------------------------------------
VARIABLES
    pc,               \* position in create_distillation_circuit
    num_bell_pairs,   \* the argument
    error,            \* the exception raised, "" when none
    qr, cr,           \* the registers, <<>> before they are allocated
    alice_target, bob_target, flag_bit,
    k, j,             \* loop counter and position in the loop body
    data,             \* qc.data, the operation sequence
    qasm_str,
    flag_logic_lines,
    qasm_lines, insert_pos, i,
    new_qasm_str,
    modified_qasm3,   \* qc._modified_qasm3
    c, ip             \* classical bits and statement pointer of a run of the flag logic

vars == << pc, num_bell_pairs, error, qr, cr, alice_target, bob_target, flag_bit,
           k, j, data, qasm_str, flag_logic_lines, qasm_lines, insert_pos, i,
           new_qasm_str, modified_qasm3, c, ip >>

N == IntOf(num_bell_pairs)

Blank ==
    /\ error = ""
    /\ qr = <<>> /\ cr = <<>>
    /\ alice_target = 0 /\ bob_target = 0 /\ flag_bit = 0
    /\ k = 0 /\ j = 0
    /\ data = <<>>
    /\ qasm_str = <<>>
    /\ flag_logic_lines = <<>>
    /\ qasm_lines = <<>> /\ insert_pos = 0 /\ i = 0
    /\ new_qasm_str = <<>>
    /\ modified_qasm3 = <<>>
    /\ c = <<>> /\ ip = 0

Init ==
    /\ pc = "validate"
    /\ num_bell_pairs \in Inputs
    /\ Blank

\* ------------------------------------------------------------------------
\* create_distillation_circuit
\* ------------------------------------------------------------------------
ValidateFail ==
    /\ pc = "validate"
    /\ ~InRange(num_bell_pairs)
    /\ pc' = "failed"
    /\ error' = "ValueError"
    /\ UNCHANGED << num_bell_pairs, qr, cr, alice_target, bob_target, flag_bit, k, j,
                    data, qasm_str, flag_logic_lines, qasm_lines, insert_pos, i,
                    new_qasm_str, modified_qasm3, c, ip >>

ValidateOk ==
    /\ pc = "validate"
    /\ InRange(num_bell_pairs)
    /\ pc' = "alloc"
    /\ UNCHANGED << num_bell_pairs, error, qr, cr, alice_target, bob_target, flag_bit,
                    k, j, data, qasm_str, flag_logic_lines, qasm_lines, insert_pos, i,
                    new_qasm_str, modified_qasm3, c, ip >>

\* a register size that is no whole number is refused by the register constructor
AllocFail ==
    /\ pc = "alloc"
    /\ ~TwiceIsIntegral(num_bell_pairs)
    /\ pc' = "failed"
    /\ error' = "CircuitError"
    /\ UNCHANGED << num_bell_pairs, qr, cr, alice_target, bob_target, flag_bit, k, j,
                    data, qasm_str, flag_logic_lines, qasm_lines, insert_pos, i,
                    new_qasm_str, modified_qasm3, c, ip >>

Alloc ==
    /\ pc = "alloc"
    /\ TwiceIsIntegral(num_bell_pairs)
    /\ LET twice == (2 * num_bell_pairs.num) \div num_bell_pairs.den
       IN  IF IsIntegral(num_bell_pairs)
           THEN /\ qr' = Register(QuantumSize(N))
                /\ cr' = Register(ClassicalSize(N))
           ELSE /\ qr' = Register(twice)
                /\ cr' = Register(twice - 1)
    /\ pc' = "setup"
    /\ UNCHANGED << num_bell_pairs, error, alice_target, bob_target, flag_bit, k, j,
                    data, qasm_str, flag_logic_lines, qasm_lines, insert_pos, i,
                    new_qasm_str, modified_qasm3, c, ip >>

\* the locals of a float argument are floats: the model leaves them at 0
Setup ==
    /\ pc = "setup"
    /\ IF IsIntegral(num_bell_pairs)
       THEN /\ alice_target' = AliceTarget(N)
            /\ bob_target' = BobTarget(N)
            /\ flag_bit' = FlagBit(N)
       ELSE UNCHANGED << alice_target, bob_target, flag_bit >>
    /\ k' = 0 /\ j' = 0
    /\ pc' = "build"
    /\ UNCHANGED << num_bell_pairs, error, qr, cr, data, qasm_str, flag_logic_lines,
                    qasm_lines, insert_pos, i, new_qasm_str, modified_qasm3, c, ip >>

\* range(N - 1) of a float
RangeFail ==
    /\ pc = "build"
    /\ ~IsIntegral(num_bell_pairs)
    /\ pc' = "failed"
    /\ error' = "TypeError"
    /\ UNCHANGED << num_bell_pairs, qr, cr, alice_target, bob_target, flag_bit, k, j,
                    data, qasm_str, flag_logic_lines, qasm_lines, insert_pos, i,
                    new_qasm_str, modified_qasm3, c, ip >>

\* one operation of the loop body
EmitOp ==
    /\ pc = "build"
    /\ IsIntegral(num_bell_pairs)
    /\ k < N - 1
    /\ data' = Append(data, StepOps(qr, cr, alice_target, bob_target, k)[j + 1])
    /\ IF j + 1 = OpsPerStep
       THEN k' = k + 1 /\ j' = 0
       ELSE k' = k /\ j' = j + 1
    /\ UNCHANGED << pc, num_bell_pairs, error, qr, cr, alice_target, bob_target,
                    flag_bit, qasm_str, flag_logic_lines, qasm_lines, insert_pos, i,
                    new_qasm_str, modified_qasm3, c, ip >>

Serialize ==
    /\ pc = "build"
    /\ IsIntegral(num_bell_pairs)
    /\ k >= N - 1
    /\ \E layout \in Layouts : qasm_str' = Dumps(qr, cr, data, layout)
    /\ pc' = "flag_init"
    /\ UNCHANGED << num_bell_pairs, error, qr, cr, alice_target, bob_target, flag_bit,
                    k, j, data, flag_logic_lines, qasm_lines, insert_pos, i,
                    new_qasm_str, modified_qasm3, c, ip >>

FlagInit ==
    /\ pc = "flag_init"
    /\ flag_logic_lines' = << FlagHeader >>
    /\ k' = 0
    /\ pc' = "flag"
    /\ UNCHANGED << num_bell_pairs, error, qr, cr, alice_target, bob_target, flag_bit,
                    j, data, qasm_str, qasm_lines, insert_pos, i, new_qasm_str,
                    modified_qasm3, c, ip >>

FlagStep ==
    /\ pc = "flag"
    /\ k < N - 1
    /\ flag_logic_lines' = flag_logic_lines \o FlagStepLines(k, flag_bit)
    /\ k' = k + 1
    /\ UNCHANGED << pc, num_bell_pairs, error, qr, cr, alice_target, bob_target,
                    flag_bit, j, data, qasm_str, qasm_lines, insert_pos, i,
                    new_qasm_str, modified_qasm3, c, ip >>

SplitText ==
    /\ pc = "flag"
    /\ k >= N - 1
    /\ c = <<>>
    /\ LET lines == Split(qasm_str)
       IN  /\ qasm_lines' = lines
           /\ insert_pos' = Len(lines)
           /\ i' = Len(lines) - 1
    /\ pc' = "scan"
    /\ UNCHANGED << num_bell_pairs, error, qr, cr, alice_target, bob_target, flag_bit,
                    k, j, data, qasm_str, flag_logic_lines, new_qasm_str,
                    modified_qasm3, c, ip >>

ScanSkip ==
    /\ pc = "scan"
    /\ i >= 0
    /\ ~IsClosingBrace(qasm_lines, i)
    /\ i' = i - 1
    /\ UNCHANGED << pc, num_bell_pairs, error, qr, cr, alice_target, bob_target,
                    flag_bit, k, j, data, qasm_str, flag_logic_lines, qasm_lines,
                    insert_pos, new_qasm_str, modified_qasm3, c, ip >>

ScanFound ==
    /\ pc = "scan"
    /\ i >= 0
    /\ IsClosingBrace(qasm_lines, i)
    /\ insert_pos' = i
    /\ pc' = "splice"
    /\ UNCHANGED << num_bell_pairs, error, qr, cr, alice_target, bob_target, flag_bit,
                    k, j, data, qasm_str, flag_logic_lines, qasm_lines, i,
                    new_qasm_str, modified_qasm3, c, ip >>

ScanEnd ==
    /\ pc = "scan"
    /\ i < 0
    /\ pc' = "splice"
    /\ UNCHANGED << num_bell_pairs, error, qr, cr, alice_target, bob_target, flag_bit,
                    k, j, data, qasm_str, flag_logic_lines, qasm_lines, insert_pos, i,
                    new_qasm_str, modified_qasm3, c, ip >>

Insert ==
    /\ pc = "splice"
    /\ new_qasm_str' = Join(Splice(qasm_lines, insert_pos, flag_logic_lines))
    /\ pc' = "attach"
    /\ UNCHANGED << num_bell_pairs, error, qr, cr, alice_target, bob_target, flag_bit,
                    k, j, data, qasm_str, flag_logic_lines, qasm_lines, insert_pos, i,
                    modified_qasm3, c, ip >>

Return ==
    /\ pc = "attach"
    /\ modified_qasm3' = new_qasm_str
    /\ pc' = "done"
    /\ UNCHANGED << num_bell_pairs, error, qr, cr, alice_target, bob_target, flag_bit,
                    k, j, data, qasm_str, flag_logic_lines, qasm_lines, insert_pos, i,
                    new_qasm_str, c, ip >>

Next ==
    \/ ValidateFail \/ ValidateOk
    \/ AllocFail \/ Alloc
    \/ Setup
    \/ RangeFail \/ EmitOp \/ Serialize
    \/ FlagInit \/ FlagStep
    \/ SplitText
    \/ ScanSkip \/ ScanFound \/ ScanEnd
    \/ Insert
    \/ Return

Spec == Init /\ [][Next]_vars

\* ------------------------------------------------------------------------
\* The patcher on its own: any text, any fragment
\* ------------------------------------------------------------------------
TextTokens == {NL, " ", "}", "x"}
FragLines == { <<"}">>, <<"    ", "f">> }

SeqsUpTo(S, n) == UNION { [1 .. m -> S] : m \in 0 .. n }

InitPatch ==
    /\ pc = "flag"
    /\ num_bell_pairs = [num |-> MinPairs, den |-> 1]
    /\ error = ""
    /\ qr = Register(QuantumSize(MinPairs)) /\ cr = Register(ClassicalSize(MinPairs))
    /\ alice_target = AliceTarget(MinPairs)
    /\ bob_target = BobTarget(MinPairs)
    /\ flag_bit = FlagBit(MinPairs)
    /\ k = MinPairs - 1 /\ j = 0
    /\ data = <<>>
    /\ qasm_str \in SeqsUpTo(TextTokens, MaxTextLen)
    /\ flag_logic_lines \in SeqsUpTo(FragLines, MaxFragLen)
    /\ qasm_lines = <<>> /\ insert_pos = 0 /\ i = 0
    /\ new_qasm_str = <<>>
    /\ modified_qasm3 = <<>>
    /\ c = <<>> /\ ip = 0

NextPatch ==
    \/ SplitText
    \/ ScanSkip \/ ScanFound \/ ScanEnd
    \/ Insert
    \/ Return

SpecPatch == InitPatch /\ [][NextPatch]_vars

\* ------------------------------------------------------------------------
\* A run of the flag logic fragment on the classical register
\* ------------------------------------------------------------------------
\* the bit index a reference c[b] names
BitOf(tok) == CHOOSE b \in 0 .. (2 * MaxPairs) : CRef(b) = tok

BoolOf(tok) == tok = "true"

IsComment(line) == Strip(line) # <<>> /\ Head(Strip(line)) = "//"
IsIf(line) == Strip(line) # <<>> /\ Head(Strip(line)) = "if ("

\* c[a] == av && c[b] == bv on the register bits
CondHolds(line, bits) ==
    LET st == Strip(line)
    IN  /\ bits[BitOf(st[2]) + 1] = BoolOf(st[4])
        /\ bits[BitOf(st[6]) + 1] = BoolOf(st[8])

\* c[f] = v;
Assign(line, bits) ==
    LET st == Strip(line)
    IN  [bits EXCEPT ![BitOf(st[1]) + 1] = BoolOf(st[3])]

\* the operations of the whole loop, as EmitOp leaves them
AllOps(q, cl, at, bt) ==
    [n \in 1 .. (OpsPerStep * (Len(q) \div 2 - 1)) |->
        StepOps(q, cl, at, bt, (n - 1) \div OpsPerStep)[((n - 1) % OpsPerStep) + 1]]

\* the state in which the serializer has returned
InitFlag ==
    /\ pc = "flag_init"
    /\ num_bell_pairs \in { x \in Inputs : IsIntegral(x) /\ InRange(x) }
    /\ error = ""
    /\ qr = Register(QuantumSize(N)) /\ cr = Register(ClassicalSize(N))
    /\ alice_target = AliceTarget(N)
    /\ bob_target = BobTarget(N)
    /\ flag_bit = FlagBit(N)
    /\ k = N - 1 /\ j = 0
    /\ data = AllOps(qr, cr, alice_target, bob_target)
    /\ qasm_str = Dumps(qr, cr, data, [scope |-> FALSE, close |-> "none", eol |-> TRUE])
    /\ flag_logic_lines = <<>>
    /\ qasm_lines = <<>> /\ insert_pos = 0 /\ i = 0
    /\ new_qasm_str = <<>>
    /\ modified_qasm3 = <<>>
    /\ c = <<>> /\ ip = 0

\* the measurement bits hold any outcomes; the flag bit starts false
StartExec ==
    /\ pc = "flag"
    /\ k >= N - 1
    /\ \E bits \in [1 .. Len(cr) -> BOOLEAN] :
          /\ bits[flag_bit + 1] = FALSE
          /\ c' = bits
    /\ ip' = 0
    /\ pc' = "exec"
    /\ UNCHANGED << num_bell_pairs, error, qr, cr, alice_target, bob_target, flag_bit,
                    k, j, data, qasm_str, flag_logic_lines, qasm_lines, insert_pos, i,
                    new_qasm_str, modified_qasm3 >>

ExecComment ==
    /\ pc = "exec"
    /\ ip < Len(flag_logic_lines)
    /\ IsComment(flag_logic_lines[ip + 1])
    /\ ip' = ip + 1
    /\ UNCHANGED << pc, num_bell_pairs, error, qr, cr, alice_target, bob_target,
                    flag_bit, k, j, data, qasm_str, flag_logic_lines, qasm_lines,
                    insert_pos, i, new_qasm_str, modified_qasm3, c >>

\* if (cond) { stmt; } with cond true
ExecIfTaken ==
    /\ pc = "exec"
    /\ ip < Len(flag_logic_lines)
    /\ IsIf(flag_logic_lines[ip + 1])
    /\ CondHolds(flag_logic_lines[ip + 1], c)
    /\ c' = Assign(flag_logic_lines[ip + 2], c)
    /\ ip' = ip + 3
    /\ UNCHANGED << pc, num_bell_pairs, error, qr, cr, alice_target, bob_target,
                    flag_bit, k, j, data, qasm_str, flag_logic_lines, qasm_lines,
                    insert_pos, i, new_qasm_str, modified_qasm3 >>

\* if (cond) { stmt; } with cond false
ExecIfSkipped ==
    /\ pc = "exec"
    /\ ip < Len(flag_logic_lines)
    /\ IsIf(flag_logic_lines[ip + 1])
    /\ ~CondHolds(flag_logic_lines[ip + 1], c)
    /\ ip' = ip + 3
    /\ UNCHANGED << pc, num_bell_pairs, error, qr, cr, alice_target, bob_target,
                    flag_bit, k, j, data, qasm_str, flag_logic_lines, qasm_lines,
                    insert_pos, i, new_qasm_str, modified_qasm3, c >>

NextFlag ==
    \/ FlagInit \/ FlagStep
    \/ StartExec
    \/ ExecComment \/ ExecIfTaken \/ ExecIfSkipped

SpecFlag == InitFlag /\ [][NextFlag]_vars

\* ------------------------------------------------------------------------
\* Properties
\* ------------------------------------------------------------------------
\* an int argument inside [2, 8]
Valid == IsIntegral(num_bell_pairs) /\ MinPairs <= N /\ N <= MaxPairs

PastBuild == pc \in {"flag_init", "flag", "scan", "splice", "attach", "done", "exec"}

\* the operation the protocol description puts at position idx (from 1) for n pairs
ProtocolOp(n, idx) ==
    LET kk  == (idx - 1) \div 8
        pos == (idx - 1) % 8
    IN  CASE pos = 0 -> [gate |-> "rx", theta |-> 1, qargs |-> <<n - 1>>, cargs |-> <<>>]
          [] pos = 1 -> [gate |-> "rx", theta |-> 1, qargs |-> <<kk>>, cargs |-> <<>>]
          [] pos = 2 -> [gate |-> "rx", theta |-> -1, qargs |-> <<n>>, cargs |-> <<>>]
          [] pos = 3 -> [gate |-> "rx", theta |-> -1, qargs |-> <<2 * n - 1 - kk>>,
                         cargs |-> <<>>]
          [] pos = 4 -> [gate |-> "cx", theta |-> 0, qargs |-> <<kk, n - 1>>, cargs |-> <<>>]
          [] pos = 5 -> [gate |-> "cx", theta |-> 0, qargs |-> <<2 * n - 1 - kk, n>>,
                         cargs |-> <<>>]
          [] pos = 6 -> [gate |-> "measure", theta |-> 0, qargs |-> <<kk>>,
                         cargs |-> <<2 * kk>>]
          [] pos = 7 -> [gate |-> "measure", theta |-> 0, qargs |-> <<2 * n - 1 - kk>>,
                         cargs |-> <<2 * kk + 1>>]

\* C1: for N in 2..8 the operations emitted so far are the first operations of
\* the protocol sequence (per step k: rx(+pi/2) on N-1 and k, rx(-pi/2) on N and
\* 2N-1-k, cx k->N-1, cx 2N-1-k->N, measure k into 2k, measure 2N-1-k into 2k+1),
\* and once the loop has ended they are all 8*(N-1) of them, nothing else.
C1_OperationSequence ==
    Valid =>
        /\ Len(data) <= 8 * (N - 1)
        /\ \A idx \in 1 .. Len(data) : data[idx] = ProtocolOp(N, idx)
        /\ PastBuild => Len(data) = 8 * (N - 1)

C1_Witness ==
    /\ Valid /\ pc = "done" /\ N = MaxPairs
    /\ Len(data) = 8 * (MaxPairs - 1)
    /\ data[Len(data)] = [gate |-> "measure", theta |-> 0, qargs |-> <<MaxPairs + 1>>,
                          cargs |-> <<2 * MaxPairs - 3>>]

\* the steps whose two measurements have been emitted
StepsDone == 0 .. ((Len(data) \div 8) - 1)
\* the qubits and the bits the two measurements of step kk name
MeasuredQubits(kk) == << data[8 * kk + 7].qargs[1], data[8 * kk + 8].qargs[1] >>
MeasuredBits(kk) == << data[8 * kk + 7].cargs[1], data[8 * kk + 8].cargs[1] >>
Elems(seq) == { seq[n] : n \in 1 .. Len(seq) }

\* C3: for N in 2..8 the ancilla pair of step k is (k, 2N-1-k) and its bit pair
\* (2k, 2k+1); the pairs of two different steps share no qubit and no bit, and
\* no ancilla qubit is a target qubit N-1 or N.
C3_Pairing ==
    Valid =>
        /\ \A kk \in StepsDone :
              /\ MeasuredQubits(kk) = << kk, 2 * N - 1 - kk >>
              /\ MeasuredBits(kk) = << 2 * kk, 2 * kk + 1 >>
              /\ Elems(MeasuredQubits(kk)) \cap {N - 1, N} = {}
              /\ Elems(MeasuredQubits(kk)) \cap {alice_target, bob_target} = {}
        /\ \A k1, k2 \in StepsDone :
              k1 # k2 =>
                  /\ Elems(MeasuredQubits(k1)) \cap Elems(MeasuredQubits(k2)) = {}
                  /\ Elems(MeasuredBits(k1)) \cap Elems(MeasuredBits(k2)) = {}

C3_Witness ==
    /\ Valid /\ pc = "build" /\ N = MaxPairs
    /\ StepsDone = 0 .. (MaxPairs - 2)
    /\ MeasuredQubits(MaxPairs - 2) = << MaxPairs - 2, MaxPairs + 1 >>

NothingBuilt ==
    /\ qr = <<>> /\ cr = <<>>
    /\ data = <<>>
    /\ qasm_str = <<>>
    /\ flag_logic_lines = <<>>
    /\ new_qasm_str = <<>>
    /\ modified_qasm3 = <<>>

\* C4: an int argument outside [2, 8] ends in the parameter-range error
\* (ValueError) with no register allocated, no operation emitted and no text.
C4_RangeError ==
    (IsIntegral(num_bell_pairs) /\ (N < 2 \/ N > 8)) =>
        /\ NothingBuilt
        /\ pc \in {"validate", "failed"}
        /\ pc = "failed" => error = "ValueError"

C4_Witness ==
    /\ IsIntegral(num_bell_pairs) /\ N = MaxPairs + 1
    /\ pc = "failed" /\ error = "ValueError" /\ NothingBuilt

\* C5: an argument that is no integer ends in the parameter error raised by the
\* validation step (ValueError), with nothing built.
C5_NonIntegerRejected ==
    ~IsIntegral(num_bell_pairs) =>
        /\ NothingBuilt
        /\ pc \in {"validate", "failed"}
        /\ pc = "failed" => error = "ValueError"

\* the serialized text has a body in a scope pair
HasScope == \E p \in 1 .. Len(qasm_str) : qasm_str[p] = "{"
\* the line (from 0) that holds the last closing delimiter of the serialized text
BodyCloseLine ==
    CHOOSE n \in 0 .. (Len(qasm_lines) - 1) :
        /\ "}" \in Elems(qasm_lines[n + 1])
        /\ \A m \in (n + 1) .. (Len(qasm_lines) - 1) : "}" \notin Elems(qasm_lines[m + 1])

\* C6: for N in 2..8 and a serialized text with a body in a scope pair, the
\* merged text holds the fragment as one block immediately before the body's
\* closing delimiter: after every statement of the body and inside its scope.
C6_InsideBody ==
    (Valid /\ pc = "done" /\ HasScope) =>
        /\ insert_pos = BodyCloseLine
        /\ Elems(qasm_lines[BodyCloseLine + 1]) \ WS = {"}"}
        /\ Split(modified_qasm3) =
               SubSeq(qasm_lines, 1, BodyCloseLine) \o flag_logic_lines
                   \o SubSeq(qasm_lines, BodyCloseLine + 1, Len(qasm_lines))

\* the lines (from 1) of a text that open a conditional
IfPositions(lines) == { p \in 1 .. Len(lines) : IsIf(lines[p]) }
\* the m-th of them
NthIf(lines, m) ==
    CHOOSE p \in IfPositions(lines) : Cardinality({ q \in IfPositions(lines) : q < p }) = m - 1

\* C7: for N in 2..8 the merged text has exactly N-1 pairs of conditionals, in
\* the order of the steps; the pair of step k tests c[2k] == true && c[2k+1] ==
\* false, then c[2k] == false && c[2k+1] == true, and each sets c[2N-2] to true.
C7_ConditionalPairs ==
    (Valid /\ pc = "done") =>
        LET merged == Split(modified_qasm3)
        IN  /\ Cardinality(IfPositions(merged)) = 2 * (N - 1)
            /\ \A kk \in 0 .. (N - 2) :
                  LET p1 == NthIf(merged, 2 * kk + 1)
                      p2 == NthIf(merged, 2 * kk + 2)
                  IN  /\ Strip(merged[p1]) =
                             << "if (", CRef(2 * kk), " == ", "true", " && ",
                                CRef(2 * kk + 1), " == ", "false", ") {" >>
                      /\ Strip(merged[p2]) =
                             << "if (", CRef(2 * kk), " == ", "false", " && ",
                                CRef(2 * kk + 1), " == ", "true", ") {" >>
                      /\ p2 = p1 + 3
                      /\ \A p \in {p1, p2} :
                            /\ Strip(merged[p + 1]) =
                                   << CRef(2 * N - 2), " = ", "true", ";" >>
                            /\ Strip(merged[p + 2]) = << "}" >>

C7_Witness ==
    /\ Valid /\ pc = "done" /\ N = MinPairs
    /\ Cardinality(IfPositions(Split(modified_qasm3))) = 2
    /\ \E p \in IfPositions(Split(modified_qasm3)) :
          Strip(Split(modified_qasm3)[p + 1]) = << "c[2]", " = ", "true", ";" >>

\* the lines (from 1) of a text that assign bit b
AssignPositions(lines, b) ==
    { p \in 1 .. Len(lines) : Strip(lines[p]) # <<>> /\ Head(Strip(lines[p])) = CRef(b) }

\* C8: for N in 2..8, at every point of the construction, every measurement
\* writes a bit in 0..2N-3 and never the flag bit 2N-2, which only lines of the
\* flag logic fragment assign; no measurement acts on a target qubit; and the
\* operations of step k act on qubits k, 2N-1-k, N-1 and N only.
C8_Isolation ==
    Valid =>
        /\ \A idx \in 1 .. Len(data) :
              LET op == data[idx]
                  kk == (idx - 1) \div 8
              IN  /\ Elems(op.qargs) \subseteq {kk, 2 * N - 1 - kk, N - 1, N}
                  /\ op.gate = "measure" =>
                        /\ op.cargs[1] \in 0 .. (2 * N - 3)
                        /\ op.cargs[1] # flag_bit
                        /\ op.qargs[1] \notin {N - 1, N}
                  /\ op.gate # "measure" => op.cargs = <<>>
        /\ AssignPositions(Split(qasm_str), 2 * N - 2) = {}
        /\ pc = "done" =>
              AssignPositions(Split(modified_qasm3), 2 * N - 2) \subseteq
                  (insert_pos + 1) .. (insert_pos + Len(flag_logic_lines))

C8_Witness ==
    /\ Valid /\ pc = "done" /\ N = 3
    /\ \E idx \in 1 .. Len(data) : data[idx].gate = "measure" /\ data[idx].cargs = <<3>>
    /\ AssignPositions(Split(modified_qasm3), 4) # {}

\* C9: for N in 2..8 the circuit has 2N qubits and 2N-1 classical bits, the
\* target qubits are N-1 and N, the flag bit is 2N-2, the last classical index,
\* and the loop runs N-1 steps; N=2 gives 4 qubits, 3 bits, 1 step and flag bit
\* 2, N=8 gives 16, 15, 7 and 14 with ancilla pairs (0,15), (1,14), ..., (6,9).
C9_Sizes ==
    (Valid /\ pc \notin {"validate", "alloc"}) =>
        /\ Len(qr) = 2 * N
        /\ Len(cr) = 2 * N - 1
        /\ pc # "setup" =>
              /\ alice_target = N - 1 /\ bob_target = N
              /\ flag_bit = 2 * N - 2
              /\ flag_bit = cr[Len(cr)]
        /\ PastBuild =>
              /\ Cardinality({ idx \in 1 .. Len(data) : data[idx].gate = "measure" })
                     = 2 * (N - 1)
              /\ StepsDone = 0 .. (N - 2)
              /\ N = 2 => Len(qr) = 4 /\ Len(cr) = 3 /\ flag_bit = 2
              /\ N = 8 =>
                    /\ Len(qr) = 16 /\ Len(cr) = 15 /\ flag_bit = 14
                    /\ \A kk \in 0 .. 6 : MeasuredQubits(kk) = << kk, 15 - kk >>

C9_Witness ==
    /\ Valid /\ pc = "done" /\ N = MaxPairs
    /\ Len(qr) = 16 /\ Len(cr) = 15 /\ flag_bit = 14
    /\ MeasuredQubits(6) = << 6, 9 >>

\* bit b of the classical register of the run
BitValue(b) == c[b + 1]
Finished == pc = "exec" /\ ip = Len(flag_logic_lines)
\* the statement the run is at opens the conditional pair of a step
AtPair ==
    /\ pc = "exec"
    /\ ip + 4 <= Len(flag_logic_lines)
    /\ IsIf(flag_logic_lines[ip + 1])
    /\ IsIf(flag_logic_lines[ip + 4])
\* the two bits the conditional at the statement pointer tests are equal
AtAgreeingIf ==
    /\ pc = "exec"
    /\ ip < Len(flag_logic_lines)
    /\ IsIf(flag_logic_lines[ip + 1])
    /\ LET st == Strip(flag_logic_lines[ip + 1])
       IN  BitValue(BitOf(st[2])) = BitValue(BitOf(st[6]))

FlagIsOr ==
    /\ Finished =>
          (BitValue(2 * N - 2) <=> \E kk \in 0 .. (N - 2) :
                                      BitValue(2 * kk) # BitValue(2 * kk + 1))
    /\ AtPair =>
          ~(CondHolds(flag_logic_lines[ip + 1], c) /\ CondHolds(flag_logic_lines[ip + 4], c))

FlagStatement ==
    (pc = "exec" /\ pc' = "exec") =>
        /\ BitValue(2 * N - 2) => c'[2 * N - 1]
        /\ AtAgreeingIf => c'[2 * N - 1] = BitValue(2 * N - 2)
        /\ \A b \in 0 .. (2 * N - 3) : c'[b + 1] = BitValue(b)

\* C2: for N in 2..8 and any measurement bits, a run of the flag logic fragment
\* that starts with the flag bit false ends with the flag bit true exactly when
\* some step k has bit 2k different from bit 2k+1; the two conditions of a step
\* never hold together; a conditional whose two bits agree leaves the flag as it
\* was; and no statement takes the flag from true to false.
C2_FlagIsOr == [](Valid => FlagIsOr) /\ [][FlagStatement]_vars

C2_Witness ==
    /\ Finished /\ N = 3
    /\ BitValue(0) = BitValue(1)
    /\ BitValue(2) /\ ~BitValue(3)
    /\ BitValue(4)

\* a line that holds a closing delimiter, whitespace around it and nothing else
SolelyClose(line) ==
    /\ Cardinality({ p \in 1 .. Len(line) : line[p] \notin WS }) = 1
    /\ \E p \in 1 .. Len(line) : line[p] = "}"

\* the greatest index (from 0) of such a line that is not line 0, else the length
LastClose(lines) ==
    LET cands == { n \in 1 .. (Len(lines) - 1) : SolelyClose(lines[n + 1]) }
    IN  IF cands = {} THEN Len(lines)
        ELSE CHOOSE n \in cands : \A m \in cands : m <= n

\* C10: for any text and any fragment, the scan runs from the last line toward
\* the first; the insertion position p is the greatest index, other than 0, of
\* a line that is solely a closing delimiter (whitespace around it ignored),
\* and the length of the text when there is none; the output is text[0:p] ++
\* fragment ++ text[p:], and taking the fragment out gives the text back.
C10_Patch ==
    /\ pc = "scan" =>
          \A n \in (i + 1) .. (Len(qasm_lines) - 1) :
              ~(n > 0 /\ SolelyClose(qasm_lines[n + 1]))
    /\ pc \in {"splice", "attach", "done"} => insert_pos = LastClose(qasm_lines)
    /\ pc \in {"attach", "done"} =>
          LET out == Split(new_qasm_str)
              p   == LastClose(qasm_lines)
              cut == SubSeq(out, 1, p)
                         \o SubSeq(out, p + Len(flag_logic_lines) + 1, Len(out))
          IN  /\ out = SubSeq(qasm_lines, 1, p) \o flag_logic_lines
                           \o SubSeq(qasm_lines, p + 1, Len(qasm_lines))
              /\ Len(out) = Len(qasm_lines) + Len(flag_logic_lines)
              /\ cut = qasm_lines
              /\ Join(cut) = qasm_str
    /\ pc = "done" => modified_qasm3 = new_qasm_str

C10_Witness ==
    /\ pc = "done"
    /\ SolelyClose(qasm_lines[1])
    /\ insert_pos > 0 /\ insert_pos < Len(qasm_lines)
    /\ qasm_lines[insert_pos + 1] # << "}" >>
    /\ flag_logic_lines # <<>>
====
